---- MODULE Spec2Model ----
(***************************************************************************)
(* State-machine model of src/optimization/sqlite-db-optimizer.py          *)
(* (class DatabaseOptimizer).  Text is modelled as a sequence of one-      *)
(* character strings, so that name derivation, SQL formatting, SQL parsing *)
(* by the engine and delimiter search are computed character by character. *)
(* The database is a catalog (tables in sqlite_master order, indexes in    *)
(* creation order) behind the sqlite3 connection the class opens.          *)
(***************************************************************************)
EXTENDS Integers, Sequences, FiniteSets, TLC

VARIABLES db, conn, openConns, pc, args, report, suggestions, i, log, exc,
          ret, prevReport, faults

vars == <<db, conn, openConns, pc, args, report, suggestions, i, log, exc,
          ret, prevReport, faults>>

----------------------------------------------------------------------------
\* Bounds of the explored inputs.

\* Foreign-key relationships declared on one table.
MaxFks == 2
\* Referencing columns of one (possibly composite) foreign key.
MaxFkCols == 2
\* Rows stored in the sampled table.
MaxRows == 2
\* Environment faults (I/O error, locked database) injected in one behaviour.
MaxFaults == 1

\* LIMIT of the sampling query.
SampleLimit == 100

----------------------------------------------------------------------------
\* Generic sequence helpers.

SeqToSet(s) == {s[k] : k \in DOMAIN s}

Take(s, n) == SubSeq(s, 1, IF n < Len(s) THEN n ELSE Len(s))

Drop(s, n) == SubSeq(s, n + 1, Len(s))

\* Position of the first occurrence of character ch in s, 0 when absent.
Find(s, ch) ==
    IF \E k \in 1..Len(s) : s[k] = ch
    THEN CHOOSE k \in 1..Len(s) : s[k] = ch /\ \A j \in 1..(k - 1) : s[j] # ch
    ELSE 0

RECURSIVE Concat(_)
Concat(ss) == IF ss = <<>> THEN <<>> ELSE Head(ss) \o Concat(Tail(ss))

\* All sequences over S of length 0..n.
SeqsUpTo(S, n) == UNION {[1..k -> S] : k \in 0..n}

----------------------------------------------------------------------------
\* Identifiers and values the explored databases are built from.

N_p == <<"p">>
N_a == <<"a">>
N_a_b == <<"a", "_", "b">>
N_sqlite_sequence ==
    <<"s","q","l","i","t","e","_","s","e","q","u","e","n","c","e">>
N_id == <<"i", "d">>
N_k == <<"k">>
N_b_c == <<"b", "_", "c">>
N_n == <<"n">>
N_c == <<"c">>
N_name == <<"n", "a", "m", "e">>
N_seq == <<"s", "e", "q">>
N_idx_a_n == <<"i","d","x","_","a","_","n">>
N_ix_other == <<"i","x","_","o","t","h","e","r">>

\* A stored value: SQLite storage class and its payload as text.
Val(t, v) == [t |-> t, v |-> v]
VNull == Val("null", <<>>)
VInt0 == Val("int", <<"0">>)
VInt1 == Val("int", <<"1">>)

SampleTexts ==
    { <<>>, <<"a">>, <<"a", "b">>, <<",">>, <<";">>, <<"|">>, <<"/">>,
      <<"a", ",", "b">>, <<"/", "a", "|">> }

SampleValues ==
    {VNull, VInt0, VInt1, Val("blob", <<"a", ",", "b">>)}
        \cup {Val("text", s) : s \in SampleTexts}

\* A table of the catalog.  sys marks an engine-maintained table, which
\* sqlite_master also lists with type 'table'.
Table(name, sys, cols, fks, rows) ==
    [name |-> name, sys |-> sys, cols |-> cols, fks |-> fks, rows |-> rows]

\* A declared foreign key: referencing columns, parent table, parent columns.
Fk(from, parent, to) == [from |-> from, parent |-> parent, to |-> to]

Index(name, tbl, col) == [name |-> name, tbl |-> tbl, col |-> col]

\* Foreign keys that can be declared on a table whose referencing-column
\* candidates are cs (in column order): one per non-empty sub-list of cs of
\* at most MaxFkCols columns.
FkChoices(cs) ==
    {Fk(f, N_p, [k \in DOMAIN f |-> IF k = 1 THEN N_id ELSE N_k]) :
        f \in {s \in SeqsUpTo(SeqToSet(cs), MaxFkCols) :
                 /\ s # <<>>
                 /\ \A j, k \in DOMAIN s :
                       j < k => Find(cs, s[j]) < Find(cs, s[k])}}

FkN == Fk(<<N_n>>, N_p, <<N_id>>)
FkBC == Fk(<<N_b_c>>, N_p, <<N_id>>)
FkBCN == Fk(<<N_b_c, N_n>>, N_p, <<N_id, N_k>>)
FkC == Fk(<<N_c>>, N_p, <<N_id>>)

TableP == Table(N_p, FALSE, <<N_id, N_k>>, <<>>, <<<<VInt1, VInt0>>>>)

TableSeq ==
    Table(N_sqlite_sequence, TRUE, <<N_name, N_seq>>, <<>>,
          <<<<Val("text", N_p), VInt1>>>>)

TableA(fks, rows) == Table(N_a, FALSE, <<N_id, N_b_c, N_n>>, fks, rows)

TableAB(fks) ==
    Table(N_a_b, FALSE, <<N_id, N_c>>, fks, <<<<VInt1, VInt1>>>>)

\* Indexes a database may hold before the optimizer runs: another name on a
\* foreign-key column, the derived name on another column, the derived name
\* on another table.
PreIndexSets ==
    { <<>>,
      <<Index(N_ix_other, N_a, N_n)>>,
      <<Index(N_idx_a_n, N_a, N_b_c)>>,
      <<Index(N_idx_a_n, N_p, N_k)>> }

RowsA == <<<<VInt1, VInt1, Val("text", <<"a", ",", "b">>)>>>>

\* The databases explored by Spec: foreign-key declarations on a that give
\* zero to three suggestions (single, repeated and composite keys), a_b.c
\* with or without a foreign key, every initial index set.
Databases ==
    { [tables |-> <<TableP, TableA(fa, RowsA), TableAB(fb)>>,
       indexes |-> ix] :
        fa \in { <<>>, <<FkN>>, <<FkN, FkN>>, <<FkBC, FkN>>, <<FkBCN>>,
                 <<FkN, FkN, FkBC>> },
        fb \in { <<>>, <<FkC>> },
        ix \in PreIndexSets }

\* The databases explored by SpecAdvisor: every list of at most MaxFks
\* foreign keys on a and on a_b, with or without the engine's sequence
\* table, every initial index set.
AdvisorDatabases ==
    { [tables |-> <<TableP>> \o sq \o <<TableA(fa, RowsA), TableAB(fb)>>,
       indexes |-> ix] :
        fa \in SeqsUpTo(FkChoices(<<N_b_c, N_n>>), MaxFks),
        fb \in SeqsUpTo(FkChoices(<<N_c>>), MaxFks),
        sq \in {<<>>, <<TableSeq>>},
        ix \in PreIndexSets }

\* The databases explored by SpecNorm: fixed schema, every content of a.n.
NormDatabases ==
    { [tables |-> <<TableP, TableSeq,
                    TableA(<<Fk(<<N_n>>, N_p, <<N_id>>)>>,
                           [k \in DOMAIN vs |-> <<VInt1, VNull, vs[k]>>])>>,
       indexes |-> <<>>] :
        vs \in SeqsUpTo(SampleValues, MaxRows) }

----------------------------------------------------------------------------
\* The SQLite catalog as seen through the cursor.

\* sqlite_master: one row per table, then one per index.
SqliteMaster(d) ==
    [k \in DOMAIN d.tables |->
        [type |-> "table", name |-> d.tables[k].name]]
    \o [k \in DOMAIN d.indexes |->
        [type |-> "index", name |-> d.indexes[k].name]]

\* "SELECT name FROM sqlite_master WHERE type='table'": 1-tuples.
QueryTables(d) ==
    LET hits == SelectSeq(SqliteMaster(d), LAMBDA r : r.type = "table")
    IN  [k \in DOMAIN hits |-> <<hits[k].name>>]

TableNamed(d, tn) ==
    CHOOSE t \in SeqToSet(d.tables) : t.name = tn

\* PRAGMA table_info(t): rows (cid, name), cid from 0.
TableInfo(d, tn) ==
    LET t == TableNamed(d, tn)
    IN  [k \in DOMAIN t.cols |-> <<k - 1, t.cols[k]>>]

\* PRAGMA index_list(t): rows (seq, name) of the indexes on t.
IndexList(d, tn) ==
    LET hits == SelectSeq(d.indexes, LAMBDA x : x.tbl = tn)
    IN  [k \in DOMAIN hits |-> <<k - 1, hits[k].name>>]

\* PRAGMA foreign_key_list(t): one row (id, seq, table, from, to) per
\* referencing COLUMN of every foreign key; the columns of a composite
\* foreign key share the id and are numbered by seq.
ForeignKeyList(d, tn) ==
    LET t == TableNamed(d, tn)
    IN  Concat([f \in DOMAIN t.fks |->
            [s \in DOMAIN t.fks[f].from |->
                <<f - 1, s - 1, t.fks[f].parent,
                  t.fks[f].from[s], t.fks[f].to[s]>>]])

\* "SELECT col FROM t LIMIT n": 1-tuples.
SelectColumn(d, tn, cn, n) ==
    LET t == TableNamed(d, tn)
        c == CHOOSE k \in DOMAIN t.cols : t.cols[k] = cn
        rs == Take(t.rows, n)
    IN  [k \in DOMAIN rs |-> <<rs[k][c]>>]

----------------------------------------------------------------------------
\* The engine's side of cursor.execute(sql) for index creation.

KwCreateIndex == <<"C","R","E","A","T","E"," ","I","N","D","E","X"," ">>
KwOn == <<" ","O","N"," ">>

\* What the engine's parser reads in "CREATE INDEX <name> ON <tbl>(<col>)".
ParseCreateIndex(sql) ==
    LET r1 == Drop(sql, Len(KwCreateIndex))
        sp == Find(r1, " ")
        r2 == Drop(r1, sp - 1)
        r3 == Drop(r2, Len(KwOn))
        lp == Find(r3, "(")
        r4 == Drop(r3, lp)
        rp == Find(r4, ")")
    IN  [ok |-> /\ Take(sql, Len(KwCreateIndex)) = KwCreateIndex
                /\ sp > 1
                /\ Take(r2, Len(KwOn)) = KwOn
                /\ lp > 1
                /\ rp > 1
                /\ rp = Len(r4),
         name |-> Take(r1, sp - 1),
         tbl |-> Take(r3, lp - 1),
         col |-> Take(r4, rp - 1)]

\* Whether the engine accepts the statement: index and table names share
\* one database-wide namespace, the table and the column must exist.
CreateIndexAccepted(d, sql) ==
    LET p == ParseCreateIndex(sql)
    IN  /\ p.ok
        /\ \A r \in SeqToSet(SqliteMaster(d)) : r.name # p.name
        /\ \E t \in SeqToSet(d.tables) :
              t.name = p.tbl /\ ~t.sys /\ p.col \in SeqToSet(t.cols)

\* The catalog after an accepted CREATE INDEX (DDL runs outside any
\* transaction in sqlite3's default mode: it is durable at once).
CreateIndexApplied(d, sql) ==
    LET p == ParseCreateIndex(sql)
    IN  [d EXCEPT !.indexes = Append(@, Index(p.name, p.tbl, p.col))]

----------------------------------------------------------------------------
\* The analysis functions of DatabaseOptimizer, over the catalog d.

analyze_table_structure(d) ==
    LET tables == QueryTables(d)
    IN  [tn \in {tables[k][1] : k \in DOMAIN tables} |->
            [columns |-> TableInfo(d, tn),
             indexes |-> IndexList(d, tn),
             foreign_keys |-> ForeignKeyList(d, tn)]]

\* Python truth value of a fetched value.
Truthy(v) ==
    CASE v.t = "null" -> FALSE
      [] v.t = "int" -> v.v # <<"0">>
      [] OTHER -> v.v # <<>>

\* isinstance(value, str)
IsStr(v) == v.t = "text"

\* Faulty variant: the delimiter list lacks '/'.
delimitersNoSlash == <<",", ";", "|">>

delimiters == <<",", ";", "|", "/">>

\* any(d in s for d in delimiters)
AnyDelimiterIn(s) ==
    \E j \in DOMAIN delimiters : \E k \in DOMAIN s : s[k] = delimiters[j]

\* The issues one sampled column yields, in sample order.
ColumnIssues(tn, cn, samples) ==
    LET hits == SelectSeq(samples,
                    LAMBDA sample : /\ Truthy(sample[1])
                                    /\ IsStr(sample[1])
                                    /\ AnyDelimiterIn(sample[1].v))
    IN  [k \in DOMAIN hits |->
            [table |-> tn,
             column |-> cn,
             issue |-> "Possible 1NF violation - multiple values in single column",
             sample |-> hits[k][1].v]]

check_normalization(d) ==
    LET tables == QueryTables(d)
    IN  Concat([t \in DOMAIN tables |->
            LET tn == tables[t][1]
                columns == TableInfo(d, tn)
            IN  Concat([c \in DOMAIN columns |->
                    ColumnIssues(tn, columns[c][2],
                        SelectColumn(d, tn, columns[c][2], SampleLimit))])])

PfxIdx == <<"i","d","x","_">>
PfxSuggestion == <<"C","r","e","a","t","e"," ","i","n","d","e","x"," ","o","n"," ","f","o","r","e","i","g","n"," ","k","e","y"," ","c","o","l","u","m","n",":"," ">>

\* Faulty variant: the derived name leaves the table out.
IdxNameNoTable(tn, cn) == PfxIdx \o cn

\* f"idx_{table_name}_{fk[3]}"
IdxName(tn, cn) == PfxIdx \o tn \o <<"_">> \o cn

\* f'CREATE INDEX {idx_name} ON {table_name}({fk[3]})'
CreateIndexSql(idx_name, tn, cn) ==
    KwCreateIndex \o idx_name \o KwOn \o tn \o <<"(">> \o cn \o <<")">>

\* Whether a foreign_key_list row of table tn is suggested, given the names
\* of the indexes on tn.
Uncovered(tn, fk, existing_indexes) ==
    IdxName(tn, fk[4]) \notin existing_indexes

\* Faulty variant: a foreign-key column counts as covered when some index
\* of the table is built on it, whatever the index is called.
TableSuggestionsByColumn(d, tn) ==
    LET covered == {x.col : x \in {y \in SeqToSet(d.indexes) : y.tbl = tn}}
        hits == SelectSeq(ForeignKeyList(d, tn),
                    LAMBDA fk : fk[4] \notin covered)
    IN  [k \in DOMAIN hits |->
            [table |-> tn,
             column |-> hits[k][4],
             suggestion |-> PfxSuggestion \o hits[k][4],
             sql |-> CreateIndexSql(IdxName(tn, hits[k][4]), tn, hits[k][4])]]

\* The suggestions of one table, in foreign_key_list order.
TableSuggestions(d, tn) ==
    LET il == IndexList(d, tn)
        existing_indexes == {il[k][2] : k \in DOMAIN il}
        hits == SelectSeq(ForeignKeyList(d, tn),
                    LAMBDA fk : Uncovered(tn, fk, existing_indexes))
    IN  [k \in DOMAIN hits |->
            [table |-> tn,
             column |-> hits[k][4],
             suggestion |-> PfxSuggestion \o hits[k][4],
             sql |-> CreateIndexSql(IdxName(tn, hits[k][4]), tn, hits[k][4])]]

suggest_indexes(d) ==
    LET tables == QueryTables(d)
    IN  Concat([t \in DOMAIN tables |-> TableSuggestions(d, tables[t][1])])

optimize_queries ==
    << "-- Use EXISTS instead of IN for better performance",
       "SELECT * FROM table1 WHERE EXISTS (SELECT 1 FROM table2 WHERE table2.id = table1.id)",
       "-- Use JOIN instead of subqueries where possible",
       "SELECT t1.*, t2.* FROM table1 t1 JOIN table2 t2 ON t1.id = t2.id",
       "-- Use EXPLAIN QUERY PLAN to analyze query performance",
       "EXPLAIN QUERY PLAN SELECT * FROM your_table WHERE your_column = 'value'" >>

----------------------------------------------------------------------------
\* The calls.  pc is the position inside the running call, "idle" between
\* calls.  log records what the call issued on the connection and what it
\* logged; ret is how the last call ended.

Ev(e, sql, ok) == [e |-> e, sql |-> sql, ok |-> ok]

NoReport == <<>>

\* An environment fault may be injected while the budget lasts.
MayFault == faults < MaxFaults

\* The state after construction, over the database behind db_path.
Start(d) ==
    /\ db = d
    /\ conn = "none"
    /\ openConns = 0
    /\ pc = "idle"
    /\ args = [op |-> "none", optimize_indexes |-> FALSE, vacuum |-> FALSE,
               db0 |-> d]
    /\ report = <<>>
    /\ suggestions = <<>>
    /\ i = 0
    /\ log = <<>>
    /\ exc = "none"
    /\ ret = [kind |-> "none", val |-> <<>>]
    /\ prevReport = NoReport
    /\ faults = 0

Init == \E d \in Databases : Start(d)

InitAdvisor == \E d \in AdvisorDatabases : Start(d)

InitNorm == \E d \in NormDatabases : Start(d)

\* A caller invokes generate_optimization_report().
CallReport ==
    /\ pc = "idle"
    /\ pc' = "connect"
    /\ args' = [op |-> "report", optimize_indexes |-> FALSE,
                vacuum |-> FALSE, db0 |-> db]
    /\ report' = <<>>
    /\ suggestions' = <<>>
    /\ i' = 0
    /\ log' = <<>>
    /\ exc' = "none"
    /\ prevReport' = IF ret.kind = "returned" /\ args.op = "report"
                     THEN ret.val ELSE NoReport
    /\ UNCHANGED <<db, conn, openConns, ret, faults>>

\* A caller invokes execute_optimization(optimize_indexes, vacuum).
CallExecute ==
    /\ pc = "idle"
    /\ \E oi \in BOOLEAN, v \in BOOLEAN :
          args' = [op |-> "execute", optimize_indexes |-> oi, vacuum |-> v,
                   db0 |-> db]
    /\ pc' = "connect"
    /\ report' = <<>>
    /\ suggestions' = <<>>
    /\ i' = 0
    /\ log' = <<>>
    /\ exc' = "none"
    /\ prevReport' = NoReport
    /\ UNCHANGED <<db, conn, openConns, ret, faults>>

\* Where a call continues after connect() returned.
AfterConnect(op) == IF op = "report" THEN "r_analysis" ELSE "e_indexes"

\* The except clause of the running call.
Handler(op) == IF op = "report" THEN "r_except" ELSE "e_except"

\* connect(): sqlite3.connect succeeds and self.conn is the new connection,
\* or it raises sqlite3.Error, which is logged and re-raised with self.conn
\* left as it was.
connect ==
    /\ pc = "connect"
    /\ \/ /\ conn' = "open"
          /\ openConns' = openConns + 1
          /\ log' = Append(log, Ev("connect", <<>>, TRUE))
          /\ pc' = AfterConnect(args.op)
          /\ UNCHANGED <<exc, faults>>
       \/ /\ MayFault
          /\ faults' = faults + 1
          /\ log' = Append(log, Ev("connect", <<>>, FALSE))
          /\ exc' = "connect"
          /\ pc' = Handler(args.op)
          /\ UNCHANGED <<conn, openConns>>
    /\ UNCHANGED <<db, args, report, suggestions, i, ret, prevReport>>

\* self.conn after close(): closed when there is one.
ConnAfterClose(c) == IF c = "none" THEN "none" ELSE "closed"

\* Faulty variant: close() leaves the connection open.
OpenAfterCloseLeak(c, n) == n

\* Open connections after close() of self.conn.
OpenAfterClose(c, n) == IF c = "open" THEN n - 1 ELSE n

\* One section of the report dict literal: computed and stored under key,
\* or the catalog access raises.
ReportSection(at, key, value, next) ==
    /\ pc = at
    /\ \/ /\ report' = Append(report, <<key, value>>)
          /\ pc' = next
          /\ UNCHANGED <<exc, faults>>
       \/ /\ MayFault
          /\ faults' = faults + 1
          /\ exc' = key
          /\ pc' = "r_except"
          /\ UNCHANGED report
    /\ UNCHANGED <<db, conn, openConns, args, suggestions, i, log, ret,
                   prevReport>>

ReportAnalysis ==
    ReportSection("r_analysis", "table_analysis",
                  analyze_table_structure(db), "r_normalization")

ReportNormalization ==
    ReportSection("r_normalization", "normalization_issues",
                  check_normalization(db), "r_suggestions")

\* Faulty variant: the report applies the first suggestion it computed.
ReportSuggestionsApplying ==
    /\ pc = "r_suggestions"
    /\ report' = Append(report, <<"index_suggestions", suggest_indexes(db)>>)
    /\ db' = IF /\ suggest_indexes(db) # <<>>
                /\ CreateIndexAccepted(db, suggest_indexes(db)[1].sql)
             THEN CreateIndexApplied(db, suggest_indexes(db)[1].sql)
             ELSE db
    /\ pc' = "r_queries"
    /\ UNCHANGED <<conn, openConns, args, suggestions, i, log, exc, ret,
                   prevReport, faults>>

ReportSuggestions ==
    ReportSection("r_suggestions", "index_suggestions",
                  suggest_indexes(db), "r_queries")

\* optimize_queries() touches no connection and cannot fail.
ReportQueries ==
    /\ pc = "r_queries"
    /\ report' = Append(report, <<"query_optimizations", optimize_queries>>)
    /\ pc' = "r_finally"
    /\ UNCHANGED <<db, conn, openConns, args, suggestions, i, log, exc, ret,
                   prevReport, faults>>

\* except Exception: log the error and re-raise.
ReportExcept ==
    /\ pc = "r_except"
    /\ log' = Append(log, Ev("error", <<>>, FALSE))
    /\ pc' = "r_finally"
    /\ UNCHANGED <<db, conn, openConns, args, report, suggestions, i, exc,
                   ret, prevReport, faults>>

\* Faulty variant: the exception is swallowed and the sections computed so
\* far are returned.
ReportOutcomeSwallow(e, r) == [kind |-> "returned", val |-> r]

\* What the call hands to its caller once the finally clause has run.
ReportOutcome(e, r) ==
    IF e = "none" THEN [kind |-> "returned", val |-> r]
    ELSE [kind |-> "raised", val |-> <<>>]

\* finally: close(); then the pending return or exception reaches the caller.
ReportFinally ==
    /\ pc = "r_finally"
    /\ conn' = ConnAfterClose(conn)
    /\ openConns' = OpenAfterClose(conn, openConns)
    /\ log' = IF conn = "none" THEN log ELSE Append(log, Ev("close", <<>>, TRUE))
    /\ ret' = ReportOutcome(exc, report)
    /\ pc' = "idle"
    /\ UNCHANGED <<db, args, report, suggestions, i, exc, prevReport, faults>>

----------------------------------------------------------------------------
\* execute_optimization

\* Where the call goes after the index block: the loop when there is
\* something to create, else on to the vacuum block.
AfterSuggest(sugg) == IF Len(sugg) > 0 THEN "e_loop" ELSE "e_vacuum"

\* if optimize_indexes: suggestions = self.suggest_indexes()
ExecSuggest ==
    /\ pc = "e_indexes"
    /\ \/ /\ ~args.optimize_indexes
          /\ pc' = "e_vacuum"
          /\ UNCHANGED <<suggestions, i, exc, faults>>
       \/ /\ args.optimize_indexes
          /\ suggestions' = suggest_indexes(db)
          /\ i' = 1
          /\ pc' = AfterSuggest(suggestions')
          /\ UNCHANGED <<exc, faults>>
       \/ /\ args.optimize_indexes
          /\ MayFault
          /\ faults' = faults + 1
          /\ exc' = "suggest_indexes"
          /\ pc' = "e_except"
          /\ UNCHANGED <<suggestions, i>>
    /\ UNCHANGED <<db, conn, openConns, args, report, log, ret, prevReport>>

\* Faulty variant: the first failed creation ends the loop.
AfterAttemptBreak(k, n, ok) == IF ok /\ k < n THEN "e_loop" ELSE "e_vacuum"

\* Where the loop goes after the attempt on suggestion k of n, whether the
\* attempt succeeded or raised sqlite3.Error (caught and logged).
AfterAttempt(k, n, ok) == IF k < n THEN "e_loop" ELSE "e_vacuum"

\* One iteration of the loop: cursor.execute(suggestion['sql']).  The engine
\* rejects the statement, or an environment fault makes it fail, or the
\* index is created.
ExecCreateIndex ==
    /\ pc = "e_loop"
    /\ i <= Len(suggestions)
    /\ LET sql == suggestions[i].sql IN
          \/ /\ CreateIndexAccepted(db, sql)
             /\ db' = CreateIndexApplied(db, sql)
             /\ log' = Append(log, Ev("execute", sql, TRUE))
             /\ pc' = AfterAttempt(i, Len(suggestions), TRUE)
             /\ UNCHANGED faults
          \/ /\ ~CreateIndexAccepted(db, sql)
             /\ log' = Append(log, Ev("execute", sql, FALSE))
             /\ pc' = AfterAttempt(i, Len(suggestions), FALSE)
             /\ UNCHANGED <<db, faults>>
          \/ /\ MayFault
             /\ faults' = faults + 1
             /\ log' = Append(log, Ev("execute", sql, FALSE))
             /\ pc' = AfterAttempt(i, Len(suggestions), FALSE)
             /\ UNCHANGED db
    /\ i' = i + 1
    /\ UNCHANGED <<conn, openConns, args, report, suggestions, exc, ret,
                   prevReport>>

\* Faulty variant: a failed VACUUM is logged and the call goes on to commit.
ExecVacuumSwallow ==
    /\ pc = "e_vacuum"
    /\ \/ /\ ~args.vacuum
          /\ pc' = "e_commit"
          /\ UNCHANGED <<log, faults>>
       \/ /\ args.vacuum
          /\ log' = Append(log, Ev("vacuum", <<>>, TRUE))
          /\ pc' = "e_commit"
          /\ UNCHANGED faults
       \/ /\ args.vacuum
          /\ MayFault
          /\ faults' = faults + 1
          /\ log' = Append(log, Ev("vacuum", <<>>, FALSE))
          /\ pc' = "e_commit"
    /\ UNCHANGED <<db, conn, openConns, args, report, suggestions, i, exc,
                   ret, prevReport>>

\* if vacuum: self.cursor.execute("VACUUM"); a failure is not caught here.
ExecVacuum ==
    /\ pc = "e_vacuum"
    /\ \/ /\ ~args.vacuum
          /\ pc' = "e_commit"
          /\ UNCHANGED <<log, exc, faults>>
       \/ /\ args.vacuum
          /\ log' = Append(log, Ev("vacuum", <<>>, TRUE))
          /\ pc' = "e_commit"
          /\ UNCHANGED <<exc, faults>>
       \/ /\ args.vacuum
          /\ MayFault
          /\ faults' = faults + 1
          /\ log' = Append(log, Ev("vacuum", <<>>, FALSE))
          /\ exc' = "vacuum"
          /\ pc' = "e_except"
    /\ UNCHANGED <<db, conn, openConns, args, report, suggestions, i, ret,
                   prevReport>>

\* self.conn.commit()
ExecCommit ==
    /\ pc = "e_commit"
    /\ \/ /\ log' = Append(log, Ev("commit", <<>>, TRUE))
          /\ pc' = "e_finally"
          /\ UNCHANGED <<exc, faults>>
       \/ /\ MayFault
          /\ faults' = faults + 1
          /\ log' = Append(log, Ev("commit", <<>>, FALSE))
          /\ exc' = "commit"
          /\ pc' = "e_except"
    /\ UNCHANGED <<db, conn, openConns, args, report, suggestions, i, ret,
                   prevReport>>

\* except Exception: log the error and re-raise.
ExecExcept ==
    /\ pc = "e_except"
    /\ log' = Append(log, Ev("error", <<>>, FALSE))
    /\ pc' = "e_finally"
    /\ UNCHANGED <<db, conn, openConns, args, report, suggestions, i, exc,
                   ret, prevReport, faults>>

\* What the call hands to its caller once the finally clause has run.
ExecOutcome(e) ==
    IF e = "none" THEN [kind |-> "returned", val |-> <<>>]
    ELSE [kind |-> "raised", val |-> <<>>]

\* finally: close(); then the call returns None or the exception propagates.
ExecFinally ==
    /\ pc = "e_finally"
    /\ conn' = ConnAfterClose(conn)
    /\ openConns' = OpenAfterClose(conn, openConns)
    /\ log' = IF conn = "none" THEN log ELSE Append(log, Ev("close", <<>>, TRUE))
    /\ ret' = ExecOutcome(exc)
    /\ pc' = "idle"
    /\ UNCHANGED <<db, args, report, suggestions, i, exc, prevReport, faults>>

----------------------------------------------------------------------------

NextReport ==
    \/ CallReport
    \/ connect
    \/ ReportAnalysis
    \/ ReportNormalization
    \/ ReportSuggestions
    \/ ReportQueries
    \/ ReportExcept
    \/ ReportFinally

Next ==
    \/ NextReport
    \/ CallExecute
    \/ ExecSuggest
    \/ ExecCreateIndex
    \/ ExecVacuum
    \/ ExecCommit
    \/ ExecExcept
    \/ ExecFinally

Spec == Init /\ [][Next]_vars

\* The report path alone, over databases that differ in their foreign keys.
SpecAdvisor == InitAdvisor /\ [][NextReport]_vars

\* The report path alone, over databases that differ in their row data.
SpecNorm == InitNorm /\ [][NextReport]_vars

----------------------------------------------------------------------------
\* Properties of suggest_indexes and of the table enumeration, over the
\* behaviours of SpecAdvisor.  The expected texts are spelled out here,
\* independently of the operators that model the code.

HasSection(r, key) == \E k \in DOMAIN r : r[k][1] = key

Section(r, key) == r[CHOOSE k \in DOMAIN r : r[k][1] = key][2]

ExpectedIdx(tn, cn) == <<"i","d","x","_">> \o tn \o <<"_">> \o cn

ExpectedSql(tn, cn) ==
    <<"C","R","E","A","T","E"," ","I","N","D","E","X"," ">> \o ExpectedIdx(tn, cn)
        \o <<" ","O","N"," ">> \o tn \o <<"(">> \o cn \o <<")">>

\* Table tn holds an index named idx_<tn>_<cn>.
NamedIndexOn(d, tn, cn) ==
    \E x \in SeqToSet(d.indexes) : x.tbl = tn /\ x.name = ExpectedIdx(tn, cn)

\* <<t, f, s>>: referencing column s of foreign key f of table t, declared in
\* the schema.
FkColumns(d) ==
    UNION {UNION {{<<t, f, s>> : s \in DOMAIN d.tables[t].fks[f].from} :
                     f \in DOMAIN d.tables[t].fks} :
              t \in DOMAIN d.tables}

FkTable(d, x) == d.tables[x[1]].name

FkColumn(d, x) == d.tables[x[1]].fks[x[2]].from[x[3]]

UncoveredFkColumns(d) ==
    {x \in FkColumns(d) : ~NamedIndexOn(d, FkTable(d, x), FkColumn(d, x))}

\* <<t, f>>: foreign-key relationships with a referencing column that lacks
\* its named index.
UncoveredFks(d) == {<<x[1], x[2]>> : x \in UncoveredFkColumns(d)}

SuggestionsFor(S, tn, cn) ==
    {k \in DOMAIN S : S[k].table = tn /\ S[k].column = cn}

\* Every suggestion of S is for an uncovered foreign-key column of d and
\* carries exactly the CREATE INDEX statement for its table and column.
SuggestionsWellFormed(d, S) ==
    \A k \in DOMAIN S :
        /\ \E x \in UncoveredFkColumns(d) :
              S[k].table = FkTable(d, x) /\ S[k].column = FkColumn(d, x)
        /\ S[k].sql = ExpectedSql(S[k].table, S[k].column)

\* C1 (as stated): whenever the report holds its index_suggestions, there
\* is exactly one suggestion per foreign key that lacks the index named
\* idx_<table>_<column>, hence at most one per foreign-key relationship,
\* composite foreign keys included, each with the exact CREATE INDEX text.
C1_OnePerForeignKey ==
    HasSection(report, "index_suggestions") =>
        LET S == Section(report, "index_suggestions") IN
        /\ Len(S) = Cardinality(UncoveredFks(db))
        /\ SuggestionsWellFormed(db, S)

\* C1 (amended): there is exactly one suggestion per referencing COLUMN of
\* every foreign key whose column lacks the index named
\* idx_<table>_<column> on that table -- a composite foreign key yields one
\* per uncovered column, several foreign keys on one column yield one each
\* -- and each sql is exactly
\* 'CREATE INDEX idx_<table>_<column> ON <table>(<column>)'.
C1_OnePerFkColumn ==
    HasSection(report, "index_suggestions") =>
        LET S == Section(report, "index_suggestions") IN
        /\ Len(S) = Cardinality(UncoveredFkColumns(db))
        /\ SuggestionsWellFormed(db, S)
        /\ \A x \in UncoveredFkColumns(db) :
              Cardinality(SuggestionsFor(S, FkTable(db, x), FkColumn(db, x)))
                = Cardinality({y \in UncoveredFkColumns(db) :
                      /\ FkTable(db, y) = FkTable(db, x)
                      /\ FkColumn(db, y) = FkColumn(db, x)})

\* A composite foreign key (b_c, n) on a, neither column indexed, next to a
\* second foreign key on n: three suggestions, two of them for n.
C1_Witness ==
    /\ HasSection(report, "index_suggestions")
    /\ TableNamed(db, N_a).fks = <<FkBCN, FkN>>
    /\ db.indexes = <<>>
    /\ Cardinality(SuggestionsFor(Section(report, "index_suggestions"),
                                  N_a, N_n)) = 2
    /\ Cardinality(SuggestionsFor(Section(report, "index_suggestions"),
                                  N_a, N_b_c)) = 1

\* C9: coverage is decided by name only: a foreign-key column c of table t
\* is suggested if and only if no index of t is named idx_t_c, whatever
\* the existing indexes cover.
C9_NameOnly ==
    HasSection(report, "index_suggestions") =>
        LET S == Section(report, "index_suggestions") IN
        \A x \in FkColumns(db) :
            (SuggestionsFor(S, FkTable(db, x), FkColumn(db, x)) # {})
                <=> ~\E ix \in SeqToSet(db.indexes) :
                        /\ ix.tbl = FkTable(db, x)
                        /\ ix.name = ExpectedIdx(FkTable(db, x), FkColumn(db, x))

\* a has foreign keys on b_c and on n and one index, named idx_a_n but built
\* on b_c: b_c, though indexed, is suggested; n, though not indexed, is not.
C9_Witness ==
    /\ HasSection(report, "index_suggestions")
    /\ db.indexes = <<Index(N_idx_a_n, N_a, N_b_c)>>
    /\ TableNamed(db, N_a).fks = <<FkBC, FkN>>
    /\ SuggestionsFor(Section(report, "index_suggestions"), N_a, N_b_c) # {}
    /\ SuggestionsFor(Section(report, "index_suggestions"), N_a, N_n) = {}

\* C6 (as stated): only user-defined tables are enumerated: no table the
\* engine maintains is ever a key of table_analysis.
C6_OnlyUserTables ==
    HasSection(report, "table_analysis") =>
        \A tn \in DOMAIN Section(report, "table_analysis") :
            ~TableNamed(db, tn).sys

----------------------------------------------------------------------------
\* Properties of check_normalization, over the behaviours of SpecNorm.

\* The text contains one of the characters , ; | /
DelimitedText(x) == \E k \in DOMAIN x : x[k] \in {",", ";", "|", "/"}

\* Rows of table a whose n value is the text x.
RowsWithText(d, x) ==
    {k \in DOMAIN TableNamed(d, N_a).rows :
        TableNamed(d, N_a).rows[k][3] = Val("text", x)}

\* Issues reported for column n of table a with sample x.
IssuesWithSample(N, x) ==
    {k \in DOMAIN N :
        N[k].table = N_a /\ N[k].column = N_n /\ N[k].sample = x}

\* C5: a sampled text value without any of , ; | / yields no issue; every
\* sampled text value with at least one yields exactly one issue per row
\* holding it, carrying that sample with its table and column; null and
\* non-text samples yield none.
C5_OneIssuePerDelimitedSample ==
    HasSection(report, "normalization_issues") =>
        LET N == Section(report, "normalization_issues") IN
        /\ \A x \in SampleTexts :
              Cardinality(IssuesWithSample(N, x))
                = IF DelimitedText(x)
                  THEN Cardinality(RowsWithText(db, x)) ELSE 0
        /\ \A k \in DOMAIN N :
              /\ N[k].table = N_a /\ N[k].column = N_n
              /\ RowsWithText(db, N[k].sample) # {}

\* Two rows with the same text "/a|" (two delimiters): two issues, each
\* with that sample.
C5_Witness ==
    /\ HasSection(report, "normalization_issues")
    /\ Cardinality(RowsWithText(db, <<"/", "a", "|">>)) = 2
    /\ Len(Section(report, "normalization_issues")) = 2

----------------------------------------------------------------------------
\* Properties of the two calls, over the behaviours of Spec.

\* The keys of the report sections computed so far, in order.
Keys(r) == [k \in DOMAIN r |-> r[k][1]]

SectionOrder ==
    <<"table_analysis", "normalization_issues", "index_suggestions",
      "query_optimizations">>

ReportEnded == pc = "idle" /\ args.op = "report"

ExecEnded == pc = "idle" /\ args.op = "execute"

\* C7: the report is all-or-nothing: sections are computed in the fixed
\* order; when connect or a section fails the call raises and hands over no
\* report; a report is returned only with all four sections.
C7_AllOrNothing ==
    /\ args.op = "report" => Keys(report) = Take(SectionOrder, Len(report))
    /\ ReportEnded /\ exc # "none" => ret.kind = "raised" /\ ret.val = <<>>
    /\ ReportEnded /\ ret.kind = "returned" =>
          /\ Keys(ret.val) = SectionOrder
          /\ exc = "none"

\* A report call that failed in its third section, after two were computed.
C7_Witness ==
    /\ ReportEnded
    /\ exc = "index_suggestions"
    /\ Len(report) = 2
    /\ ret.kind = "raised"

\* C8: two reports in a row (nothing run in between) return the same
\* index_suggestions, in the same order, and the same table_analysis; at no
\* point of a report call does the database differ from what it was when
\* the call began.
C8_Idempotent ==
    /\ args.op = "report" => db = args.db0
    /\ ReportEnded /\ ret.kind = "returned" /\ prevReport # NoReport =>
          /\ Section(ret.val, "index_suggestions")
                = Section(prevReport, "index_suggestions")
          /\ Section(ret.val, "table_analysis")
                = Section(prevReport, "table_analysis")

\* A second report in a row that returned, with suggestions to repeat.
C8_Witness ==
    /\ ReportEnded
    /\ ret.kind = "returned"
    /\ prevReport # NoReport
    /\ Len(Section(ret.val, "index_suggestions")) >= 2

\* C4: no call ends with an open connection: whenever control is back at
\* the caller, the connection the call opened is closed, whichever way
\* the call ended.
C4_NoOpenConnection ==
    /\ openConns \in {0, 1}
    /\ pc = "idle" => openConns = 0 /\ conn # "open"
    /\ pc = "idle" /\ args.op # "none" /\ exc # "connect" => conn = "closed"

\* An execute call whose compaction failed: raised, connection closed.
C4_Witness ==
    /\ ExecEnded
    /\ exc = "vacuum"
    /\ ret.kind = "raised"
    /\ conn = "closed"
    /\ openConns = 0


\* Positions of the log entries of kind e.
At(e) == {k \in DOMAIN log : log[k].e = e}

\* The CREATE INDEX statements issued so far, in order.
Attempts == SelectSeq(log, LAMBDA x : x.e = "execute")

\* The call is past its index block: connect and suggest_indexes succeeded
\* and the loop has ended.
LoopOver ==
    /\ args.op = "execute"
    /\ pc \in {"e_vacuum", "e_commit", "e_except", "e_finally", "idle"}
    /\ exc \notin {"connect", "suggest_indexes"}

\* C2: with apply_indexes on, a failed CREATE INDEX is swallowed: once the
\* loop is over every suggestion's statement has been attempted, in
\* suggestion order, whatever failed; no exception of the call stems from
\* the loop; and when the call returns, commit was issued after the last
\* attempt and every index whose creation succeeded is in the database.
C2_PartialFailureTolerant ==
    args.op = "execute" /\ args.optimize_indexes =>
        /\ LoopOver =>
              /\ Len(Attempts) = Len(suggestions)
              /\ \A k \in DOMAIN Attempts : Attempts[k].sql = suggestions[k].sql
        /\ exc \in {"none", "connect", "suggest_indexes", "vacuum", "commit"}
        /\ pc = "idle" /\ exc = "none" => ret.kind = "returned"
        /\ pc = "idle" /\ ret.kind = "returned" =>
              /\ \E c \in At("commit") :
                    /\ log[c].ok
                    /\ \A k \in At("execute") : k < c
              /\ \A k \in DOMAIN Attempts :
                    Attempts[k].ok =>
                        \E x \in SeqToSet(db.indexes) :
                            /\ x.tbl = suggestions[k].table
                            /\ x.col = suggestions[k].column
                            /\ x.name = ExpectedIdx(x.tbl, x.col)

\* Three suggestions, the second one failed, the first and the third were
\* created, the call committed and returned.
C2_Witness ==
    /\ ExecEnded
    /\ ret.kind = "returned"
    /\ Len(Attempts) = 3
    /\ Attempts[1].ok /\ ~Attempts[2].ok /\ Attempts[3].ok
    /\ At("commit") # {}
    /\ Len(db.indexes) = Len(args.db0.indexes) + 2

\* C3: with compact_storage on, VACUUM is issued at most once, exactly once
\* when the call gets past its index block, and only after every CREATE
\* INDEX attempt; when it fails the call raises and commit is never issued;
\* commit is issued only after a successful VACUUM (or with compaction
\* off), and always before the connection is closed.
C3_CompactionThenCommit ==
    args.op = "execute" =>
        /\ Cardinality(At("vacuum")) <= 1
        /\ ~args.vacuum => At("vacuum") = {}
        /\ args.vacuum /\ LoopOver /\ pc # "e_vacuum" =>
              Cardinality(At("vacuum")) = 1
        /\ \A v \in At("vacuum") :
              /\ \A k \in At("execute") : k < v
              /\ args.optimize_indexes => Len(Attempts) = Len(suggestions)
              /\ ~log[v].ok =>
                    /\ At("commit") = {}
                    /\ pc = "idle" => ret.kind = "raised"
        /\ \A c \in At("commit") :
              /\ args.vacuum => \E v \in At("vacuum") : v < c /\ log[v].ok
              /\ \A k \in At("close") : c < k
              /\ \A k \in At("execute") : k < c

\* A call with both flags on whose VACUUM failed after two index creations:
\* it raised without committing.
C3_Witness ==
    /\ ExecEnded
    /\ args.vacuum
    /\ Len(Attempts) = 2
    /\ \E v \in At("vacuum") : ~log[v].ok
    /\ At("commit") = {}
    /\ ret.kind = "raised"

\* C10 (as stated): once execute_optimization(apply_indexes on) has
\* returned normally, suggest_indexes on the database it left finds nothing
\* more to suggest, so that a second call issues no CREATE INDEX -- stated
\* here for the narrowest case the claim covers: the database held no index
\* before the call and no environment fault occurred, so that a creation
\* can only have failed because two foreign keys derive the same name.
C10_Converges ==
    /\ ExecEnded
    /\ args.optimize_indexes
    /\ ret.kind = "returned"
    /\ faults = 0
    /\ args.db0.indexes = <<>>
    => suggest_indexes(db) = <<>>

====
